---- MODULE Spec2Model ----
(***************************************************************************)
(* Model of strategy.py: the request strategies (TextRequestStrategy,      *)
(* ImageRequestStrategy), the MistralRequestContext that forwards to the   *)
(* active strategy, and the ChatFacade session with its history, its model *)
(* registry and its command loop (__call__).                               *)
(*                                                                         *)
(* Python values are modelled as follows: a dict is a record, a list is a  *)
(* sequence, a tuple is a sequence, None is the value None below.  A call  *)
(* either returns a value or raises; its outcome is a record               *)
(*   [kind |-> "return", value |-> v]   or   [kind |-> "raise", exc |-> e].*)
(***************************************************************************)
EXTENDS Integers, Sequences, FiniteSets, TLC

(***************************************************************************)
(* Bounds of the exploration.                                              *)
(***************************************************************************)
\* ask_question calls explored since the history was last empty
MaxAsks == 2

(***************************************************************************)
(* Input alphabets.                                                        *)
(***************************************************************************)
None == "<None>"

Texts == {"Hello", "c"}

\* what the user may type at the text prompt of the command loop
LoopTexts == {"Hello", "c", "exit", "EXIT"}

\* replies the external endpoint may produce
Replies == {"b"}

ModelInputs == {"mistral-large-latest", "pixtral-12b-2409", "gpt-4", ""}

StrategyInputs == {"text", "image", "audio", ""}

ImagePaths == {None, "", "cat.jpg", "empty.jpg", "missing.jpg", "locked.jpg"}

\* Python truthiness of an optional string (None and "" are falsy)
Truthy(s) == s # None /\ s # ""

\* str.lower() on the strings the model feeds it
lower(s) ==
    CASE s = "EXIT"  -> "exit"
      [] s = "Hello" -> "hello"
      [] OTHER       -> s

(***************************************************************************)
(* The file system read by open(image_path, "rb"): file contents are byte  *)
(* sequences; a path may be absent or unreadable.                          *)
(***************************************************************************)
FileSystem ==
    [p \in {"cat.jpg", "empty.jpg", "missing.jpg", "locked.jpg"} |->
        CASE p = "cat.jpg"     -> [status |-> "ok", data |-> <<255, 216, 255, 224>>]
          [] p = "empty.jpg"   -> [status |-> "ok", data |-> <<>>]
          [] p = "missing.jpg" -> [status |-> "FileNotFoundError", data |-> <<>>]
          [] p = "locked.jpg"  -> [status |-> "PermissionError", data |-> <<>>]]

(***************************************************************************)
(* base64.b64encode(...).decode('utf-8'): three bytes become four          *)
(* characters of the alphabet, the tail is padded with "=".                *)
(***************************************************************************)
B64Alphabet ==
    << "A","B","C","D","E","F","G","H","I","J","K","L","M","N","O","P",
       "Q","R","S","T","U","V","W","X","Y","Z","a","b","c","d","e","f",
       "g","h","i","j","k","l","m","n","o","p","q","r","s","t","u","v",
       "w","x","y","z","0","1","2","3","4","5","6","7","8","9","+","/" >>

B64Char(n) == B64Alphabet[n + 1]

RECURSIVE b64encode(_)
b64encode(bytes) ==
    IF Len(bytes) = 0 THEN ""
    ELSE IF Len(bytes) = 1 THEN
        B64Char(bytes[1] \div 4) \o B64Char((bytes[1] % 4) * 16) \o "=="
    ELSE IF Len(bytes) = 2 THEN
        B64Char(bytes[1] \div 4)
        \o B64Char((bytes[1] % 4) * 16 + (bytes[2] \div 16))
        \o B64Char((bytes[2] % 16) * 4) \o "="
    ELSE
        B64Char(bytes[1] \div 4)
        \o B64Char((bytes[1] % 4) * 16 + (bytes[2] \div 16))
        \o B64Char((bytes[2] % 16) * 4 + (bytes[3] \div 64))
        \o B64Char(bytes[3] % 64)
        \o b64encode(SubSeq(bytes, 4, Len(bytes)))

\* ImageRequestStrategy.__encode_image: "" when open() or read() raises
\* (a path that names no file, or that is not a path at all, included)
encode_image(image_path) ==
    IF image_path \in DOMAIN FileSystem /\ FileSystem[image_path].status = "ok"
    THEN b64encode(FileSystem[image_path].data)
    ELSE ""

(***************************************************************************)
(* The external endpoint client.chat.complete(model, messages): it either  *)
(* answers with a first choice whose content is a reply, or faults.        *)
(***************************************************************************)
Responses ==
    {[ok |-> TRUE, content |-> r] : r \in Replies}
        \cup {[ok |-> FALSE, content |-> ""]}

Return(v) == [kind |-> "return", value |-> v]
Raise(e) == [kind |-> "raise", exc |-> e]

\* variant: a fault of the endpoint is caught and reported as a result
complete_catches_fault(model, messages, resp) ==
    [out |-> << [model |-> model, messages |-> messages, response |-> resp] >>,
     ret |-> IF resp.ok
             THEN Return([role |-> "assistant", content |-> resp.content])
             ELSE Return([error |-> "Request failed."])]

\* variant: a faulted call is sent a second time
complete_retries(model, messages, resp) ==
    [out |-> IF resp.ok
             THEN << [model |-> model, messages |-> messages, response |-> resp] >>
             ELSE << [model |-> model, messages |-> messages, response |-> resp],
                     [model |-> model, messages |-> messages, response |-> resp] >>,
     ret |-> IF resp.ok
             THEN Return([role |-> "assistant", content |-> resp.content])
             ELSE Raise("TransportFault")]

\* the call to the endpoint and the normalisation of its reply; out is the
\* request sent, together with what the endpoint did with it
complete(model, messages, resp) ==
    [out |-> << [model |-> model, messages |-> messages, response |-> resp] >>,
     ret |-> IF resp.ok
             THEN Return([role |-> "assistant", content |-> resp.content])
             ELSE Raise("TransportFault")]

user_message(text) == [role |-> "user", content |-> text]

(***************************************************************************)
(* TextRequestStrategy.execute                                             *)
(***************************************************************************)
\* variant: the new prompt is put in front of the prior messages
text_messages_prompt_first(text, history) ==
    << user_message(text) >> \o (IF history # <<>> THEN history ELSE <<>>)

text_messages(text, history) ==
    (IF history # <<>> THEN history ELSE <<>>) \o << user_message(text) >>

\* variant: messages is the history list itself (messages = history)
text_history_after_aliased(text, history) ==
    history \o << user_message(text) >>

\* the list passed as history, once execute is over: messages is a new list
\* and extend() copies into it, so the argument is as it was
text_history_after(text, history) == history

TextExecute(text, model, history, image_path, resp) ==
    complete(model, text_messages(text, history), resp)

(***************************************************************************)
(* ImageRequestStrategy.execute                                            *)
(***************************************************************************)
image_messages(text, base64_image) ==
    << [role |-> "user",
        content |-> << [type |-> "text", text |-> text],
                       [type |-> "image_url",
                        image_url |-> "data:image/jpeg;base64," \o base64_image] >>] >>

\* the list passed as history, once execute is over: execute never reads it
image_history_after(text, history) == history

\* variant: an unreadable image is raised as an error, not reported
ImageExecute_raises_encoding(text, model, history, image_path, resp) ==
    IF ~Truthy(image_path)
    THEN [out |-> <<>>,
          ret |-> Return([error |-> "Image path is required for ImageRequestStrategy."])]
    ELSE IF encode_image(image_path) = ""
    THEN [out |-> <<>>, ret |-> Raise("EncodingFault")]
    ELSE complete(model, image_messages(text, encode_image(image_path)), resp)

\* variant: the prior messages are sent in front of the image message
ImageExecute_with_history(text, model, history, image_path, resp) ==
    IF ~Truthy(image_path)
    THEN [out |-> <<>>,
          ret |-> Return([error |-> "Image path is required for ImageRequestStrategy."])]
    ELSE IF encode_image(image_path) = ""
    THEN [out |-> <<>>, ret |-> Return([error |-> "Failed to encode image."])]
    ELSE complete(model, history \o image_messages(text, encode_image(image_path)), resp)

\* variant: no test of image_path before encoding
ImageExecute_unchecked(text, model, history, image_path, resp) ==
    IF encode_image(image_path) = ""
    THEN [out |-> <<>>, ret |-> Return([error |-> "Failed to encode image."])]
    ELSE complete(model, image_messages(text, encode_image(image_path)), resp)

ImageExecute(text, model, history, image_path, resp) ==
    IF ~Truthy(image_path)
    THEN [out |-> <<>>,
          ret |-> Return([error |-> "Image path is required for ImageRequestStrategy."])]
    ELSE IF encode_image(image_path) = ""
    THEN [out |-> <<>>, ret |-> Return([error |-> "Failed to encode image."])]
    ELSE complete(model, image_messages(text, encode_image(image_path)), resp)

(***************************************************************************)
(* ChatFacade.__init__: the registry and the two strategy instances.  An   *)
(* instance is a record; id tells the instances built by __init__ from any *)
(* other instance of the same class.                                       *)
(***************************************************************************)
MISTAL_API_KEY == "api-key"

registry == [text |-> << "mistral-large-latest" >>, image |-> << "pixtral-12b-2409" >>]

text_strategy ==
    [id |-> "self.text_strategy", class |-> "TextRequestStrategy",
     api_key |-> MISTAL_API_KEY]

image_strategy ==
    [id |-> "self.image_strategy", class |-> "ImageRequestStrategy",
     api_key |-> MISTAL_API_KEY]

\* MistralRequestContext(strategy)
MistralRequestContext(strategy) == [strategy |-> strategy]

\* MistralRequestContext.execute_strategy: forwards to the active strategy
execute_strategy(self, text, mdl, hist, image_path, resp) ==
    IF self.strategy.class = "TextRequestStrategy"
    THEN TextExecute(text, mdl, hist, image_path, resp)
    ELSE ImageExecute(text, mdl, hist, image_path, resp)

\* the list passed as history once execute_strategy is over
history_after_execute(self, text, hist) ==
    IF self.strategy.class = "TextRequestStrategy"
    THEN text_history_after(text, hist)
    ELSE image_history_after(text, hist)

\* x in list
InList(x, list) == \E i \in 1..Len(list) : list[i] = x

\* 'text' if isinstance(self.request_context.strategy, TextRequestStrategy) else 'image'
model_type(ctx) ==
    IF ctx.strategy.class = "TextRequestStrategy" THEN "text" ELSE "image"

VARIABLES
    models,           \* self.models: strategy kind -> list of model identifiers
    request_context,  \* self.request_context
    model,            \* self.model
    history,          \* self.history: list of (text, message) tuples
    call,             \* the last operation invoked and its inputs
    ret,              \* outcome of the last operation
    out,              \* requests sent to the endpoint by the last operation
    pre,              \* the session's fields as the last operation found them
    asked,            \* ask_question calls since the history was last empty
    loop              \* __call__: position and local variables

vars == << models, request_context, model, history, call, ret, out, pre, asked, loop >>

\* the session's fields
Snapshot ==
    [models |-> models, request_context |-> request_context,
     model |-> model, history |-> history]

Init ==
    /\ models = registry
    /\ request_context = MistralRequestContext(text_strategy)
    /\ model \in {m \in ModelInputs : InList(m, registry["text"])}
    /\ history = <<>>
    /\ call = [op |-> "__init__"]
    /\ ret = Return(None)
    /\ out = <<>>
    /\ pre = [models |-> registry,
              request_context |-> MistralRequestContext(text_strategy),
              model |-> None, history |-> <<>>]
    /\ asked = <<>>
    /\ loop = [pc |-> "text", text |-> None, strategy_type |-> None,
               model |-> None, image_path |-> None]

(***************************************************************************)
(* ChatFacade operations (the fields of the facade and what the caller     *)
(* observes of the call).                                                  *)
(***************************************************************************)
\* variant: the text branch wraps the strategy of the context being replaced
change_strategy_keeps_old(strategy_type) ==
    /\ call' = [op |-> "change_strategy", strategy_type |-> strategy_type]
    /\ pre' = Snapshot
    /\ IF strategy_type = "text"
       THEN /\ request_context' = MistralRequestContext(request_context.strategy)
            /\ ret' = Return(None)
       ELSE IF strategy_type = "image"
       THEN /\ request_context' = MistralRequestContext(image_strategy)
            /\ ret' = Return(None)
       ELSE /\ request_context' = request_context
            /\ ret' = Raise("ValueError: invalid strategy type")
    /\ out' = <<>>
    /\ UNCHANGED << models, model, history, asked >>

\* variant: a new strategy instance is constructed on every change
change_strategy_fresh(strategy_type) ==
    /\ call' = [op |-> "change_strategy", strategy_type |-> strategy_type]
    /\ pre' = Snapshot
    /\ IF strategy_type = "text"
       THEN /\ request_context' =
                  MistralRequestContext([text_strategy EXCEPT !.id = "new"])
            /\ ret' = Return(None)
       ELSE IF strategy_type = "image"
       THEN /\ request_context' =
                  MistralRequestContext([image_strategy EXCEPT !.id = "new"])
            /\ ret' = Return(None)
       ELSE /\ request_context' = request_context
            /\ ret' = Raise("ValueError: invalid strategy type")
    /\ out' = <<>>
    /\ UNCHANGED << models, model, history, asked >>

change_strategy(strategy_type) ==
    /\ call' = [op |-> "change_strategy", strategy_type |-> strategy_type]
    /\ pre' = Snapshot
    /\ IF strategy_type = "text"
       THEN /\ request_context' = MistralRequestContext(text_strategy)
            /\ ret' = Return(None)
       ELSE IF strategy_type = "image"
       THEN /\ request_context' = MistralRequestContext(image_strategy)
            /\ ret' = Return(None)
       ELSE /\ request_context' = request_context
            /\ ret' = Raise("ValueError: invalid strategy type")
    /\ out' = <<>>
    /\ UNCHANGED << models, model, history, asked >>

\* variant: the identifier is looked up in the lists of every kind
select_model_any_kind(input) ==
    /\ call' = [op |-> "select_model", input |-> input]
    /\ pre' = Snapshot
    /\ ret' = IF ~(\E k \in DOMAIN models : InList(input, models[k]))
              THEN Raise("ValueError: invalid model")
              ELSE Return(input)
    /\ out' = <<>>
    /\ UNCHANGED << models, request_context, model, history, asked >>

select_model(input) ==
    /\ call' = [op |-> "select_model", input |-> input]
    /\ pre' = Snapshot
    /\ ret' = IF ~InList(input, models[model_type(request_context)])
              THEN Raise("ValueError: invalid model")
              ELSE Return(input)
    /\ out' = <<>>
    /\ UNCHANGED << models, request_context, model, history, asked >>

\* [msg for _, msg in self.history]: the messages of a history, in order
MessagesOf(hist) == [i \in 1..Len(hist) |-> hist[i][2]]

\* variant: the result is appended before the user message
appended_result_first(hist, text, outcome) ==
    IF outcome.kind = "return"
    THEN hist \o << <<text, outcome.value>>, <<text, user_message(text)>> >>
    ELSE hist

\* variant: a reported fault is not recorded, only the user message is
appended_skips_fault(hist, text, outcome) ==
    IF outcome.kind = "return"
    THEN IF "error" \in DOMAIN outcome.value
         THEN hist \o << <<text, user_message(text)>> >>
         ELSE hist \o << <<text, user_message(text)>>, <<text, outcome.value>> >>
    ELSE hist

\* variant: the user message is appended before the strategy is executed
appended_user_before_execute(hist, text, outcome) ==
    IF outcome.kind = "return"
    THEN hist \o << <<text, user_message(text)>>, <<text, outcome.value>> >>
    ELSE hist \o << <<text, user_message(text)>> >>

\* variant: the two entries are inserted at the front of the history
appended_at_front(hist, text, outcome) ==
    IF outcome.kind = "return"
    THEN << <<text, user_message(text)>>, <<text, outcome.value>> >> \o hist
    ELSE hist

\* self.history after ask_question: two appends when execute_strategy
\* returned, none when it raised (the exception leaves ask_question)
appended(hist, text, outcome) ==
    IF outcome.kind = "return"
    THEN hist \o << <<text, user_message(text)>>, <<text, outcome.value>> >>
    ELSE hist

ask_question(text, mdl, image_path, resp) ==
    LET current_history == MessagesOf(history)
        response == execute_strategy(request_context, text, mdl,
                                     current_history, image_path, resp)
    IN  /\ Len(asked) < MaxAsks
        /\ call' = [op |-> "ask_question", text |-> text, model |-> mdl,
                    image_path |-> image_path,
                    current_history |->
                        history_after_execute(request_context, text, current_history)]
        /\ pre' = Snapshot
        /\ out' = response.out
        /\ ret' = response.ret
        /\ history' = appended(history, text, response.ret)
        /\ asked' = Append(asked, [text |-> text, ret |-> response.ret,
                                   calls |-> Len(response.out)])
        /\ UNCHANGED << models, request_context, model >>

get_history ==
    /\ call' = [op |-> "get_history"]
    /\ pre' = Snapshot
    /\ ret' = Return(history)
    /\ out' = <<>>
    /\ UNCHANGED << models, request_context, model, history, asked >>

\* variant: the reset also puts the text strategy back
clear_history_resets_strategy ==
    /\ call' = [op |-> "clear_history"]
    /\ pre' = Snapshot
    /\ ret' = Return(None)
    /\ out' = <<>>
    /\ history' = <<>>
    /\ asked' = <<>>
    /\ request_context' = MistralRequestContext(text_strategy)
    /\ UNCHANGED << models, model >>

clear_history ==
    /\ call' = [op |-> "clear_history"]
    /\ pre' = Snapshot
    /\ ret' = Return(None)
    /\ out' = <<>>
    /\ history' = <<>>
    /\ asked' = <<>>
    /\ UNCHANGED << models, request_context, model >>

(***************************************************************************)
(* Specification Spec: an embedding caller invokes the session operations  *)
(* in any order with any inputs.                                           *)
(***************************************************************************)
ChangeStrategy ==
    /\ \E k \in StrategyInputs : change_strategy(k)
    /\ UNCHANGED loop

SelectModel ==
    /\ \E m \in ModelInputs : select_model(m)
    /\ UNCHANGED loop

AskQuestion ==
    /\ \E t \in Texts, m \in ModelInputs, p \in ImagePaths, resp \in Responses :
          ask_question(t, m, p, resp)
    /\ UNCHANGED loop

GetHistory ==
    /\ get_history
    /\ UNCHANGED loop

ClearHistory ==
    /\ clear_history
    /\ UNCHANGED loop

Next ==
    \/ ChangeStrategy
    \/ SelectModel
    \/ AskQuestion
    \/ GetHistory
    \/ ClearHistory

Spec == Init /\ [][Next]_vars

(***************************************************************************)
(* Specification SpecAlias: as Spec, with a caller that also uses the list *)
(* get_history() handed it.  get_history returns self.history, the list    *)
(* object itself, so what the caller does to that list is done to          *)
(* self.history.                                                           *)
(***************************************************************************)
\* the caller's h.clear(), h.pop() or h.append(entry) on h = get_history()
CallerMutatesReturned ==
    /\ call.op = "get_history"
    /\ \E how \in {"clear", "pop", "append"} :
          /\ how = "pop" => history # <<>>
          /\ how = "append" => Len(history) < 2 * MaxAsks
          /\ call' = [op |-> "caller_mutation", how |-> how]
          /\ history' = CASE how = "clear"  -> <<>>
                           [] how = "pop"    -> SubSeq(history, 1, Len(history) - 1)
                           [] how = "append" -> Append(history, << "c", user_message("c") >>)
    /\ pre' = Snapshot
    /\ ret' = Return(None)
    /\ out' = <<>>
    /\ UNCHANGED << models, request_context, model, asked, loop >>

NextAlias ==
    \/ Next
    \/ CallerMutatesReturned

SpecAlias == Init /\ [][NextAlias]_vars

(***************************************************************************)
(* Specification SpecLoop: ChatFacade.__call__, the command loop.  Each    *)
(* input() is one step; an exception that no handler catches leaves the    *)
(* loop (pc = "raised").                                                   *)
(***************************************************************************)
\* text = input(...); if text.lower() == "exit": break
LoopReadText ==
    /\ loop.pc = "text"
    /\ \E t \in LoopTexts :
          loop' = IF lower(t) = "exit"
                  THEN [loop EXCEPT !.pc = "done", !.text = t]
                  ELSE [loop EXCEPT !.pc = "strategy", !.text = t]
    /\ UNCHANGED << models, request_context, model, history, call, ret, out, pre, asked >>

\* strategy_type = input(...); self.change_strategy(strategy_type)
LoopChangeStrategy ==
    /\ loop.pc = "strategy"
    /\ \E k \in StrategyInputs :
          /\ change_strategy(k)
          /\ loop' = IF ret'.kind = "raise"
                     THEN [loop EXCEPT !.pc = "raised", !.strategy_type = k]
                     ELSE [loop EXCEPT !.pc = "model", !.strategy_type = k]

\* model = self.select_model(); image_path = None
LoopSelectModel ==
    /\ loop.pc = "model"
    /\ \E m \in ModelInputs :
          /\ select_model(m)
          /\ loop' = IF ret'.kind = "raise"
                     THEN [loop EXCEPT !.pc = "raised"]
                     ELSE [loop EXCEPT !.pc = IF loop.strategy_type = "image"
                                              THEN "image" ELSE "ask",
                                       !.model = m,
                                       !.image_path = None]

\* if strategy_type == "image": image_path = input(...)
LoopReadImage ==
    /\ loop.pc = "image"
    /\ \E p \in ImagePaths \ {None} :
          loop' = [loop EXCEPT !.pc = "ask", !.image_path = p]
    /\ UNCHANGED << models, request_context, model, history, call, ret, out, pre, asked >>

\* response = self.ask_question(text, model, image_path if image_path else None)
LoopAsk ==
    /\ loop.pc = "ask"
    /\ \E resp \in Responses :
          ask_question(loop.text, loop.model,
                       IF Truthy(loop.image_path) THEN loop.image_path ELSE None,
                       resp)
    /\ loop' = IF ret'.kind = "raise"
               THEN [loop EXCEPT !.pc = "raised"]
               ELSE [loop EXCEPT !.pc = "text"]

NextLoop ==
    \/ LoopReadText
    \/ LoopChangeStrategy
    \/ LoopSelectModel
    \/ LoopReadImage
    \/ LoopAsk

SpecLoop == Init /\ [][NextLoop]_vars

(***************************************************************************)
(* Properties.                                                             *)
(***************************************************************************)
\* an outcome that is a returned assistant message
Successful(outcome) ==
    /\ outcome.kind = "return"
    /\ "role" \in DOMAIN outcome.value

\* an outcome that is a returned structured fault
ReportedFault(outcome) ==
    /\ outcome.kind = "return"
    /\ "error" \in DOMAIN outcome.value

\* C1: after n successful ask_question calls on a history that started empty
\* (no clear_history in between), get_history() has 2*n entries; entry 2k-1
\* is the user message of the k-th call, entry 2k its assistant reply, both
\* tagged with the k-th prompt, so roles alternate in call order.
C1_HistoryAlternatesInCallOrder ==
    (/\ call.op = "get_history"
     /\ \A k \in 1..Len(asked) : Successful(asked[k].ret))
    => /\ Len(ret.value) = 2 * Len(asked)
       /\ \A k \in 1..Len(asked) :
             /\ ret.value[2 * k - 1] = << asked[k].text, user_message(asked[k].text) >>
             /\ ret.value[2 * k] = << asked[k].text, asked[k].ret.value >>
             /\ ret.value[2 * k - 1][2].role = "user"
             /\ ret.value[2 * k][2].role = "assistant"

C1_Witness ==
    /\ call.op = "get_history"
    /\ Len(asked) = 2
    /\ \A k \in 1..Len(asked) : Successful(asked[k].ret)
    /\ asked[1].text # asked[2].text
    /\ Len(ret.value) = 4

\* C2: an ask_question call that returns a result, an assistant message or a
\* reported fault, has appended exactly (text, user message) and then
\* (text, result), and the result is the one the active strategy produced.
C2_AskAppendsUserThenResult ==
    (call.op = "ask_question" /\ ret.kind = "return")
    => /\ history = pre.history \o << << call.text, user_message(call.text) >>,
                                      << call.text, ret.value >> >>
       /\ \E resp \in Responses :
             execute_strategy(pre.request_context, call.text, call.model,
                              MessagesOf(pre.history), call.image_path, resp).ret = ret

C2_Witness ==
    /\ call.op = "ask_question"
    /\ ReportedFault(ret)
    /\ Len(pre.history) = 2
    /\ Len(history) = 4
    /\ history[4] = << call.text, ret.value >>

\* C3: clear_history() empties the history from any prior state and leaves
\* the request context, the active model and the registry as they were; a
\* get_history() that follows it returns the empty sequence.
C3_ClearHistoryEmptiesOnly ==
    [][ /\ (call'.op = "clear_history")
            => /\ history' = <<>>
               /\ UNCHANGED << request_context, model, models >>
        /\ (call.op = "clear_history" /\ call'.op = "get_history")
            => ret' = Return(<<>>) ]_vars

C3_Witness ==
    /\ call.op = "clear_history"
    /\ Len(pre.history) = 4
    /\ history = <<>>
    /\ request_context.strategy = image_strategy
    /\ pre.request_context = request_context

\* C4: select_model with an identifier that is not in models[kind], kind
\* being that of the active strategy, raises the invalid-model error and
\* leaves the active model, the history and the active strategy untouched.
C4_InvalidModelRejected ==
    (/\ call.op = "select_model"
     /\ ~InList(call.input, pre.models[model_type(pre.request_context)]))
    => /\ ret = Raise("ValueError: invalid model")
       /\ model = pre.model
       /\ history = pre.history
       /\ request_context = pre.request_context
       /\ models = pre.models

C4_Witness ==
    /\ call.op = "select_model"
    /\ call.input = "mistral-large-latest"
    /\ request_context.strategy = image_strategy
    /\ ret.kind = "raise"
    /\ Len(history) > 0

\* C5: ImageRequestStrategy.execute without an image reference (None or "")
\* returns the "image required" fault and sends nothing to the endpoint,
\* whatever the text, the model and the history.
C5_MissingImageReported ==
    (/\ call.op = "ask_question"
     /\ pre.request_context.strategy.class = "ImageRequestStrategy"
     /\ ~Truthy(call.image_path))
    => /\ ret = Return([error |-> "Image path is required for ImageRequestStrategy."])
       /\ out = <<>>

C5_Witness ==
    /\ call.op = "ask_question"
    /\ pre.request_context.strategy.class = "ImageRequestStrategy"
    /\ call.image_path = ""
    /\ Len(pre.history) > 0
    /\ ReportedFault(ret)
    /\ out = <<>>

\* C6: the message list TextRequestStrategy.execute sends is the messages of
\* the history in their order followed by the one new user message: nothing
\* dropped, duplicated or reordered (on an empty history, the new message
\* alone).
C6_TextSendsHistoryThenPrompt ==
    (/\ call.op = "ask_question"
     /\ pre.request_context.strategy.class = "TextRequestStrategy")
    => /\ Len(out) = 1
       /\ out[1].model = call.model
       /\ Len(out[1].messages) = Len(pre.history) + 1
       /\ \A i \in 1..Len(pre.history) : out[1].messages[i] = pre.history[i][2]
       /\ out[1].messages[Len(pre.history) + 1] = [role |-> "user", content |-> call.text]
       /\ (pre.history = <<>> /\ call.text = "Hello")
            => out[1].messages = << [role |-> "user", content |-> "Hello"] >>

C6_Witness ==
    /\ call.op = "ask_question"
    /\ pre.request_context.strategy.class = "TextRequestStrategy"
    /\ call.text = "c"
    /\ pre.history = << << "Hello", [role |-> "user", content |-> "Hello"] >>,
                        << "Hello", [role |-> "assistant", content |-> "b"] >> >>
    /\ out[1].messages = << [role |-> "user", content |-> "Hello"],
                            [role |-> "assistant", content |-> "b"],
                            [role |-> "user", content |-> "c"] >>

\* C7: change_strategy leaves the history (and the model and the registry)
\* unchanged, and a switch from the text strategy to image and back yields
\* the session's fields exactly as they were before the switch, so the next
\* ask behaves as if no switch had happened.
C7_SwitchRoundTrip ==
    [][ /\ (call'.op = "change_strategy")
            => UNCHANGED << history, model, models >>
        /\ (/\ call.op = "change_strategy" /\ call.strategy_type = "image"
            /\ pre.request_context.strategy = text_strategy
            /\ call'.op = "change_strategy" /\ call'.strategy_type = "text")
            => /\ request_context' = pre.request_context
               /\ history' = pre.history
               /\ model' = pre.model
               /\ models' = pre.models
               /\ \A t \in Texts, m \in ModelInputs, p \in ImagePaths, resp \in Responses :
                     execute_strategy(request_context', t, m, MessagesOf(history'), p, resp)
                       = execute_strategy(pre.request_context, t, m,
                                          MessagesOf(pre.history), p, resp) ]_vars

C7_Witness ==
    /\ call.op = "change_strategy"
    /\ call.strategy_type = "text"
    /\ pre.request_context.strategy = image_strategy
    /\ request_context = MistralRequestContext(text_strategy)
    /\ Len(history) = 4
    /\ history = pre.history

\* C8: change_strategy raises the invalid-strategy error for a kind outside
\* {text, image} and keeps the active strategy; for text or image the active
\* strategy becomes the matching instance built by __init__; so the active
\* strategy is always one of those two instances.
C8_StrategyIsPreconstructed ==
    /\ request_context.strategy \in {text_strategy, image_strategy}
    /\ (call.op = "change_strategy")
         => IF call.strategy_type = "text"
            THEN ret = Return(None) /\ request_context.strategy = text_strategy
            ELSE IF call.strategy_type = "image"
            THEN ret = Return(None) /\ request_context.strategy = image_strategy
            ELSE /\ ret = Raise("ValueError: invalid strategy type")
                 /\ request_context = pre.request_context

C8_Witness ==
    /\ call.op = "change_strategy"
    /\ call.strategy_type = "audio"
    /\ ret.kind = "raise"
    /\ request_context.strategy = image_strategy

\* C9: in the command loop a selection fault (invalid strategy kind, invalid
\* model) is not raised out of the loop: the loop is back at the prompt it
\* came from (strategy, respectively model) and can go on to Ready.
C9_SelectionFaultKeepsLoop ==
    /\ (call.op = "change_strategy" /\ ret.kind = "raise") => loop.pc = "strategy"
    /\ (call.op = "select_model" /\ ret.kind = "raise") => loop.pc = "model"

\* C10 as stated: every ask_question call appends exactly two history
\* entries, whatever its outcome.
C10_EveryAskAppendsTwo ==
    (call.op = "ask_question") => Len(history) = Len(pre.history) + 2

\* C10 as amended: an ask_question call that returns, with an assistant
\* message or with a reported fault, has appended exactly two entries, the
\* user turn and then the assistant or error turn; a call in which the
\* endpoint faults raises and leaves the history as it was.
C10_ReturningAskAppendsTwo ==
    (call.op = "ask_question")
    => IF ret.kind = "return"
       THEN /\ Len(history) = Len(pre.history) + 2
            /\ SubSeq(history, 1, Len(pre.history)) = pre.history
            /\ history[Len(history) - 1][2] = user_message(call.text)
            /\ Successful(ret) \/ ReportedFault(ret)
            /\ history[Len(history)][2] = ret.value
       ELSE /\ ret = Raise("TransportFault")
            /\ history = pre.history

C10_Witness ==
    /\ call.op = "ask_question"
    /\ ret.kind = "raise"
    /\ Len(out) = 1
    /\ Len(pre.history) = 2
    /\ history = pre.history

\* a path that names a file open() or read() fails on
Unreadable(image_path) ==
    /\ image_path \in DOMAIN FileSystem
    /\ FileSystem[image_path].status # "ok"

\* hist is a prefix of longer
IsPrefix(hist, longer) ==
    /\ Len(hist) <= Len(longer)
    /\ \A i \in 1..Len(hist) : longer[i] = hist[i]

\* C11: when the image cannot be read (not found, permission or I/O error)
\* ImageRequestStrategy.execute returns the encoding fault as an error
\* result, sends nothing to the endpoint, and the command loop goes on: the
\* ask returns, its result is recorded, and the loop is not left by an
\* exception, so later asks can be issued.
C11_UnreadableImageReported ==
    /\ (/\ call.op = "ask_question"
        /\ pre.request_context.strategy.class = "ImageRequestStrategy"
        /\ Unreadable(call.image_path))
         => /\ ret = Return([error |-> "Failed to encode image."])
            /\ out = <<>>
            /\ history = pre.history \o << << call.text, user_message(call.text) >>,
                                           << call.text, ret.value >> >>
            /\ loop.pc \in {"text", "strategy", "done"}
    /\ (loop.pc = "raised" /\ call.op = "ask_question")
         => ~(pre.request_context.strategy.class = "ImageRequestStrategy"
              /\ Unreadable(call.image_path))

C11_Witness ==
    /\ Len(asked) = 2
    /\ asked[1].ret = Return([error |-> "Failed to encode image."])
    /\ call.op = "ask_question"
    /\ Successful(ret)
    /\ loop.pc = "text"

\* C12: when the endpoint faults during ask_question, the fault reaches the
\* caller of ask_question as the raised fault (no structured result, no
\* second attempt), and history, active strategy and active model are as
\* they were before the call.
C12_TransportFaultSurfaces ==
    (/\ call.op = "ask_question"
     /\ out # <<>>
     /\ ~out[1].response.ok)
    => /\ ret = Raise("TransportFault")
       /\ Len(out) = 1
       /\ history = pre.history
       /\ request_context = pre.request_context
       /\ model = pre.model
       /\ models = pre.models

C12_Witness ==
    /\ call.op = "ask_question"
    /\ out # <<>>
    /\ ~out[1].response.ok
    /\ ret = Raise("TransportFault")
    /\ pre.request_context.strategy = image_strategy
    /\ Len(history) = 2

\* C13: a model selected while the active strategy kind is K belongs to
\* registry[K]; so in the command loop the model passed to each
\* ask_question, and to each outbound call, belongs to the registry list of
\* the strategy kind active for that ask; the registry never changes.
C13_LoopModelMatchesStrategyKind ==
    /\ models = registry
    /\ (call.op = "select_model" /\ ret.kind = "return")
         => InList(ret.value, registry[model_type(pre.request_context)])
    /\ loop.pc \in {"image", "ask"}
         => InList(loop.model, registry[model_type(request_context)])
    /\ (call.op = "ask_question")
         => /\ InList(call.model, registry[model_type(pre.request_context)])
            /\ \A i \in 1..Len(out) :
                  InList(out[i].model, registry[model_type(pre.request_context)])

C13_Witness ==
    /\ call.op = "ask_question"
    /\ pre.request_context.strategy = image_strategy
    /\ call.model = "pixtral-12b-2409"
    /\ Len(out) = 1
    /\ out[1].model = "pixtral-12b-2409"
    /\ loop.pc = "text"

\* C14: get_history() returns the full ordered list of (prompt, message)
\* pairs and changes no session state, and nothing the caller does with the
\* returned value changes the session's own history.
C14_GetHistoryReadOnly ==
    /\ (call.op = "get_history")
         => /\ ret = Return(history)
            /\ Snapshot = pre
    /\ (call.op = "caller_mutation") => history = pre.history

\* C15: history is append-only: after ask_question, change_strategy,
\* select_model and get_history the history before the operation is a
\* prefix of the history after it; only clear_history shortens it.
C15_HistoryAppendOnly ==
    /\ (call.op \in {"ask_question", "change_strategy", "select_model", "get_history"})
         => IsPrefix(pre.history, history)
    /\ (Len(history) < Len(pre.history)) => call.op = "clear_history"

C15_Witness ==
    /\ call.op = "ask_question"
    /\ Len(pre.history) = 2
    /\ Len(history) = 4
    /\ history[1] # history[3]
    /\ IsPrefix(pre.history, history)

\* C16: every message of every outbound call carries a role that is user or
\* assistant, after any sequence of asks, a text ask that follows an ask
\* which returned a structured fault included.
C16_SentMessagesHaveRole ==
    \A i \in 1..Len(out) :
        \A j \in 1..Len(out[i].messages) :
            /\ "role" \in DOMAIN out[i].messages[j]
            /\ out[i].messages[j].role \in {"user", "assistant"}

\* C17: execute does not mutate the history it is given: for both
\* strategies the list passed in has the same entries in the same order
\* after execute as before, and the session's history is changed only by
\* the two appends of ask_question that follow.
C17_ExecuteLeavesHistoryArgument ==
    (call.op = "ask_question")
    => /\ call.current_history = MessagesOf(pre.history)
       /\ Len(call.current_history) = Len(pre.history)
       /\ history = IF ret.kind = "return"
                    THEN pre.history \o << << call.text, user_message(call.text) >>,
                                           << call.text, ret.value >> >>
                    ELSE pre.history

C17_Witness ==
    /\ call.op = "ask_question"
    /\ pre.request_context.strategy = text_strategy
    /\ Len(pre.history) = 2
    /\ Len(out) = 1
    /\ Len(out[1].messages) = 3
    /\ Len(call.current_history) = 2

\* C18: the message list ImageRequestStrategy.execute sends is exactly one
\* user message holding the text and the encoded image; no message of the
\* history is in it, however long the history is.
C18_ImageSendsOneMessage ==
    (/\ call.op = "ask_question"
     /\ pre.request_context.strategy.class = "ImageRequestStrategy"
     /\ out # <<>>)
    => /\ Len(out[1].messages) = 1
       /\ out[1].messages[1].role = "user"
       /\ Len(out[1].messages[1].content) = 2
       /\ out[1].messages[1].content[1] = [type |-> "text", text |-> call.text]
       /\ out[1].messages[1].content[2].type = "image_url"
       /\ (call.image_path = "cat.jpg")
            => out[1].messages[1].content[2].image_url
                  = "data:image/jpeg;base64,/9j/4A=="

C18_Witness ==
    /\ call.op = "ask_question"
    /\ pre.request_context.strategy.class = "ImageRequestStrategy"
    /\ Len(pre.history) = 2
    /\ call.image_path = "cat.jpg"
    /\ Len(out) = 1
    /\ Len(out[1].messages) = 1
    /\ Successful(ret)

\* C19: TextRequestStrategy.execute with an empty model fails with the
\* configuration fault, so no turn is made with an empty model.
C19_EmptyModelRejected ==
    (/\ call.op = "ask_question"
     /\ pre.request_context.strategy.class = "TextRequestStrategy"
     /\ call.model = "")
    => /\ ret = Raise("ConfigurationFault")
       /\ out = <<>>
       /\ history = pre.history

\* C20: each ask_question makes at most one outbound call and never a
\* second attempt: exactly one when the turn reaches the endpoint (a reply
\* or a fault of the endpoint), none when a missing-input or encoding fault
\* is reported; after n asks at most n calls have been made.
RECURSIVE CallsOf(_)
CallsOf(log) ==
    IF log = <<>> THEN 0 ELSE log[1].calls + CallsOf(Tail(log))

C20_AtMostOneCallPerAsk ==
    /\ CallsOf(asked) <= Len(asked)
    /\ (call.op = "ask_question")
         => /\ Len(out) <= 1
            /\ ReportedFault(ret) <=> out = <<>>
            /\ (Successful(ret) \/ ret.kind = "raise") <=> Len(out) = 1
            /\ pre.request_context.strategy.class = "TextRequestStrategy"
                 => Len(out) = 1

C20_Witness ==
    /\ call.op = "ask_question"
    /\ ret = Raise("TransportFault")
    /\ Len(out) = 1
    /\ Len(asked) = 2
    /\ CallsOf(asked) = 1

====
